---------------------------- MODULE Spec2Model ----------------------------
(***************************************************************************)
(* PhotoKitty (src/src/App.tsx): the top-level component PhotoKittyApp,    *)
(* the webcam GestureController, the particle layout getHelloKittyData and *)
(* the per-frame visibility / gallery ring logic of CompositionElements.   *)
(*                                                                         *)
(* Conventions                                                             *)
(*  - Math.random() draws are percentages 0..99 taken from small sets;     *)
(*    `x < 0.5` in the source is `x < 50` here.                            *)
(*  - classification scores are percentages; landmark x is in thousandths; *)
(*    the rotation speed is in units of 1e-5.                              *)
(*  - a status string is a tuple of its pieces, the first piece being the  *)
(*    literal prefix of the template (`ERROR: ${m}` is <<"ERROR: ", m>>).  *)
(*  - a ring angle is the pair <<numerator, denominator>> of full turns.   *)
(***************************************************************************)
EXTENDS Integers, Sequences, FiniteSets, TLC

\* ---------------------------------------------------------------- constants

\* const TOTAL_NUMBERED_PHOTOS = 52
TOTAL_NUMBERED_PHOTOS == 52

\* CONFIG.counts.total
ParticleCount == 400

\* `gestureCount.current > 5`
DebounceFrames == 5

\* `score > 0.5`, in percent
ScoreThreshold == 50

\* ------------------------------------------------------------------- bounds

\* the debounce counter is capped: a run longer than this is not extended
MaxCount == 7

\* effect instances of GestureController whose setup or loop is still alive
MaxEffects == 2

\* textures that may end up without any PHOTO particle in one random layout
MaxHoles == 1

\* random layouts differ by a phase 0..MaxPhase of the type draws
MaxPhase == 1

\* getHelloKittyData is applied to indices 0..MaxLayoutIndex on its own
MaxLayoutIndex == 45

\* files selected in one upload request: 0..MaxFiles
MaxFiles == 3

\* gallery positions the arrows visit in the specification of the frame: 0..MaxNav
MaxNav == 2

\* --------------------------------------------------------------- state

VARIABLES
  \* PhotoKittyApp useState
  sceneState, rotationSpeed, birthdayMode, aiStatus, debugMode, photoCount,
  galleryMode, currentPhotoIndex,
  \* GestureController useRef
  lastGesture, gestureCount, currentState,
  \* GestureController effect instances (closures of useEffect) and the latest one
  effects, curEffect,
  \* a camera stream that getUserMedia gave to the controller has live tracks
  streamActive,
  \* the photo check started on mount: next index to check, loadedCount
  checkIndex, loadedCount,
  \* CompositionElements: texture loading, data, uniquePhotoIndices, group.visible
  textures, data, uniquePhotoIndices, visible,
  \* the target and the lerp speed (in tenths) the latest frame used
  frameTarget, lerpSpeed,
  \* latest result of getHelloKittyData applied on its own
  layoutOut,
  \* observations: the onGesture call of the latest prediction step and the
  \* current unbroken run of qualifying samples (both of the component instance
  \* that is mounted), the outcome of the latest gallery request,
  \* the alert of the latest upload request, whether a frame ran since the last
  \* change, how the latest setup() that ended did end
  lastEmit, runLabel, runLen, lastRequest, lastAlert, framed, lastOutcome

appVars == <<sceneState, rotationSpeed, birthdayMode, aiStatus, debugMode,
             photoCount, galleryMode, currentPhotoIndex>>
refVars == <<lastGesture, gestureCount, currentState>>
ctlVars == <<lastGesture, gestureCount, currentState, effects, curEffect>>
checkVars == <<checkIndex, loadedCount>>
particleVars == <<textures, data, uniquePhotoIndices, visible, frameTarget, lerpSpeed>>
obsVars == <<lastEmit, runLabel, runLen, lastRequest, lastAlert, framed, lastOutcome>>
vars == <<sceneState, rotationSpeed, birthdayMode, aiStatus, debugMode,
          photoCount, galleryMode, currentPhotoIndex,
          lastGesture, gestureCount, currentState, effects, curEffect, streamActive,
          checkIndex, loadedCount,
          textures, data, uniquePhotoIndices, visible, frameTarget, lerpSpeed,
          layoutOut,
          lastEmit, runLabel, runLen, lastRequest, lastAlert, framed, lastOutcome>>

\* ------------------------------------------------------------- helpers

\* JavaScript's % : the remainder takes the sign of the dividend
JsMod(a, b) ==
  IF a >= 0 THEN a % b ELSE -((-a) % b)

\* Math.min
MathMin(a, b) ==
  IF a <= b THEN a ELSE b

\* Math.abs
MathAbs(a) ==
  IF a < 0 THEN -a ELSE a

\* JavaScript's `a || b` on strings: the empty string is falsy
JsOr(a, b) ==
  IF a = "" THEN b ELSE a

\* the null of a ref or of an unset value
Null == "null"


\* ------------------------------------------------- getHelloKittyData

\* draws that decide a branch of getHelloKittyData, on both sides of each threshold
TypeDraws == {49, 50, 74, 75, 89, 90}
RegionDraws == {64, 65, 84, 85}
PartDraws == {19, 20, 59, 60}
CoinDraws == {50, 51}

\* one call's Math.random() draws: part (bow lobe), r (region), typeR (type),
\* a and b (the two later `Math.random() > 0.5` draws, in call order)
RndDraws ==
  [part : PartDraws, r : RegionDraws, typeR : TypeDraws, a : CoinDraws, b : CoinDraws]

\* Math.PI / 2 and the whisker tilt 0.15, in 1e-4 rad
HalfPi == 15708
WhiskerTilt == 1500

\* the type chosen for a body/head/ear particle, by wrong thresholds (mutant)
BodyTypeShifted(typeR) ==
  IF typeR < 50 THEN "PHOTO"
  ELSE IF typeR < 75 THEN "BOW"
  ELSE IF typeR < 90 THEN "HEART"
  ELSE "GIFT"

\* `if (typeR < 0.5) ... else if (typeR < 0.75) ... else if (typeR < 0.9) ... else`
BodyType(typeR) ==
  IF typeR < 50 THEN "PHOTO"
  ELSE IF typeR < 75 THEN "BALLOON"
  ELSE IF typeR < 90 THEN "HEART"
  ELSE "GIFT"

\* the record getHelloKittyData returns.  pos is in tenths for the fixed face
\* parts and <<>> for the parts sampled on a surface (their region is kept);
\* scale is in tenths (the bow's random scale 0.8..1.2 is kept at its base);
\* rotZ is rotation.z in 1e-4 rad.
getHelloKittyData(index, rnd) ==
  IF index = 0 \/ index = 1 THEN
    [type |-> "EYE", color |-> "black", scale |-> 8, region |-> "FACE",
     pos |-> <<IF index = 0 THEN -15 ELSE 15, -5, 38>>, rotZ |-> 0]
  ELSE IF index = 2 THEN
    [type |-> "NOSE", color |-> "yellow", scale |-> 6, region |-> "FACE",
     pos |-> <<0, -12, 40>>, rotZ |-> 0]
  ELSE IF index >= 3 /\ index <= 8 THEN
    LET side == IF index < 6 THEN -1 ELSE 1
        row == JsMod(index - 3, 3)
        rowTilt == IF row = 0 THEN WhiskerTilt ELSE IF row = 1 THEN 0 ELSE -WhiskerTilt
    IN [type |-> "WHISKER", color |-> "black", scale |-> 10, region |-> "FACE",
        pos |-> <<side * 45, -8 - row * 6, 30>>,
        rotZ |-> IF side = 1 THEN -HalfPi + rowTilt ELSE HalfPi - rowTilt]
  ELSE IF index >= 9 /\ index <= 35 THEN
    [type |-> "BOW", color |-> "hotPink", scale |-> 8,
     region |-> IF rnd.part < 20 THEN "BOW_CENTER"
                ELSE IF rnd.part < 60 THEN "BOW_LEFT" ELSE "BOW_RIGHT",
     pos |-> <<>>, rotZ |-> 0]
  ELSE
    LET type == BodyType(rnd.typeR)
        color0 == IF type = "HEART" \/ type = "GIFT"
                  THEN (IF rnd.a > 50 THEN "white" ELSE "lightPink")
                  ELSE "white"
    IN IF rnd.r < 65 THEN
         [type |-> type, color |-> color0, scale |-> 10, region |-> "HEAD",
          pos |-> <<>>, rotZ |-> 0]
       ELSE IF rnd.r < 85 THEN
         [type |-> type, color |-> color0, scale |-> 10,
          region |-> IF rnd.b > 50 THEN "EAR_LEFT" ELSE "EAR_RIGHT",
          pos |-> <<>>, rotZ |-> 0]
       ELSE
         [type |-> type,
          color |-> IF type # "PHOTO"
                    THEN (IF rnd.b > 50 THEN "blue" ELSE "pink") ELSE color0,
          scale |-> 10, region |-> "BODY", pos |-> <<>>, rotZ |-> 0]

\* ------------------------------------------- CompositionElements: data

\* no data: CompositionElements is unmounted or still suspended on its textures
NoData == <<>>

\* textures = useTexture(CONFIG.photos.body): one texture per numbered photo
TextureCount == TOTAL_NUMBERED_PHOTOS

\* textures whose particles may all draw a non-PHOTO type in a layout
HoleCandidates == {0, 36, 51}

\* the type draws of a layout cycle through PHOTO, BALLOON, HEART, GIFT
TypeCycle == <<49, 74, 89, 99>>

\* the random layouts considered: a set of textures without a PHOTO particle
\* and a phase of the cycle of type draws
Seeds ==
  {[holes |-> h, phase |-> p] :
     h \in {x \in SUBSET HoleCandidates : Cardinality(x) <= MaxHoles},
     p \in 0..MaxPhase}

\* the draws of particle i in the layout of a seed
SeedDraws(seed, i) ==
  [part |-> 19, r |-> 64, a |-> 50, b |-> 50,
   typeR |-> IF (i % TextureCount) \in seed.holes THEN 50
             ELSE TypeCycle[(((i \div TextureCount) + (i % TextureCount) + seed.phase) % 4) + 1]]

\* data = useMemo(() => new Array(count).fill(0).map((_, i) => ...)), indexed 0..count-1
MakeData(seed) ==
  [i \in 0..(ParticleCount - 1) |->
     [type |-> getHelloKittyData(i, SeedDraws(seed, i)).type,
      textureIndex |-> JsMod(i, TextureCount)]]

\* one iteration of the loop of uniquePhotoIndices on seenTextures and indices:
\* if (data[i].type === 'PHOTO') { if (!seenTextures.has(t)) { add t; push i } }
UniqueStep(d, i, acc) ==
  IF d[i].type = "PHOTO" /\ d[i].textureIndex \notin acc.seen
  THEN [seen |-> acc.seen \cup {d[i].textureIndex}, indices |-> Append(acc.indices, i)]
  ELSE acc

RECURSIVE UniqueLoop(_, _, _, _)
\* for (let i = lo; i < hi; i++) UniqueStep: the iterations of lo..hi-1 in order,
\* run as the first half followed by the second half (the test on `first` makes
\* TLC evaluate the first half before it descends into the second)
UniqueLoop(d, lo, hi, acc) ==
  IF hi <= lo THEN acc
  ELSE IF hi = lo + 1 THEN UniqueStep(d, lo, acc)
  ELSE LET mid == (lo + hi) \div 2
           first == UniqueLoop(d, lo, mid, acc)
       IN IF first.seen = first.seen THEN UniqueLoop(d, mid, hi, first) ELSE first

\* uniquePhotoIndices = useMemo(..., [data])
UniquePhotoIndices(d) ==
  UniqueLoop(d, 0, ParticleCount, [seen |-> {}, indices |-> <<>>]).indices

\* Array.prototype.includes
Includes(seq, x) ==
  \E k \in 1..Len(seq) : seq[k] = x

\* Array.prototype.indexOf, 0-based, for an element that occurs
IndexOf(seq, x) ==
  (CHOOSE k \in 1..Len(seq) : seq[k] = x /\ \A j \in 1..(k - 1) : seq[j] # x) - 1

\* getGalleryPosition: angle = photoIdx/total * 2PI - focusedIndex/total * 2PI,
\* as <<numerator, denominator>> of full turns; the position is
\* (sin(angle) * 20, 0, cos(angle) * 20), the front being angle 0
GalleryAngle(photoIdx, totalPhotos, focusedIndex) ==
  <<photoIdx - focusedIndex, totalPhotos>>

\* ------------------------------------------------- GestureController

Slots == 1..MaxEffects

\* a slot of the table of effect instances that holds none: an instance leaves
\* the table when it can take no further step (its setup() has ended and no
\* animation-frame request of its loop is pending)
FreeEffect ==
  [pc |-> "free", rec |-> FALSE, raf |-> FALSE, live |-> FALSE, dbg |-> FALSE]

\* a new run of the effect: setup() has been called and awaits FilesetResolver.
\* rec: gestureRecognizer is set; raf: an animation-frame request is pending;
\* live: the component instance is mounted (videoRef.current and
\* canvasRef.current are set); dbg: the debugMode the closure captured
NewEffect(dbg) ==
  [pc |-> "fetch", rec |-> FALSE, raf |-> FALSE, live |-> TRUE, dbg |-> dbg]

\* a slot that holds no instance
Reusable(eff) ==
  eff.pc = "free"

\* the lowest slot that can be used, 0 if there is none
FirstReusable(effs) ==
  IF \E e \in Slots : Reusable(effs[e])
  THEN CHOOSE e \in Slots : Reusable(effs[e]) /\ \A f \in Slots : Reusable(effs[f]) => e <= f
  ELSE 0

\* the effect's cleanup: return () => cancelAnimationFrame(requestRef)
Cleanup(effs, e) ==
  IF e # 0 /\ effs[e].raf THEN [effs EXCEPT ![e] = FreeEffect] ELSE effs

\* {!birthdayMode && !galleryMode && <GestureController .../>}
Mounted(birthday, gallery) ==
  ~birthday /\ ~gallery

StatusDownloading == <<"DOWNLOADING AI...">>
StatusRequesting == <<"REQUESTING CAMERA...">>
StatusReady == <<"AI READY: SHOW HAND">>
StatusNoHand == <<"AI READY: NO HAND">>
StatusCameraDenied == <<"ERROR: ", "CAMERA PERMISSION DENIED">>

\* onStatus(`ERROR: ${err.message || 'MODEL FAILED'}`)
CatchStatus(message) ==
  <<"ERROR: ", JsOr(message, "MODEL FAILED")>>

\* the messages of the errors the awaited calls reject with
ErrMessages == {"Failed to fetch", ""}

\* the refs of a new component instance
InitRefs ==
  /\ lastGesture' = Null
  /\ gestureCount' = 0
  /\ currentState' = Null

\* the samples a new component instance has seen: none
InitRun ==
  /\ lastEmit' = Null
  /\ runLabel' = Null
  /\ runLen' = 0

\* GestureController is mounted: new refs, the effect runs, setup() starts
MountController(dbg) ==
  /\ FirstReusable(effects) # 0
  /\ effects' = [effects EXCEPT ![FirstReusable(effects)] = NewEffect(dbg)]
  /\ curEffect' = FirstReusable(effects)
  /\ InitRefs
  /\ InitRun
  /\ aiStatus' = StatusDownloading

\* GestureController is unmounted: the latest effect's cleanup runs, the refs
\* of every closure of that instance are detached
UnmountController ==
  /\ effects' = [e \in Slots |->
                   IF Reusable(Cleanup(effects, curEffect)[e]) THEN FreeEffect
                   ELSE [Cleanup(effects, curEffect)[e] EXCEPT !.live = FALSE]]
  /\ curEffect' = 0
  /\ InitRefs
  /\ InitRun
  /\ UNCHANGED aiStatus

\* a dependency of the effect changed: cleanup of the latest run, then a new run
RerunEffect(dbg) ==
  LET cleaned == Cleanup(effects, curEffect)
      slot == FirstReusable(cleaned)
  IN /\ slot # 0
     /\ effects' = [cleaned EXCEPT ![slot] = NewEffect(dbg)]
     /\ curEffect' = slot
     /\ UNCHANGED <<refVars, lastEmit, runLabel, runLen>>
     /\ aiStatus' = StatusDownloading

\* what a render does to GestureController
ControllerUpdate(was, is, depsChanged, dbg) ==
  IF ~was /\ is THEN MountController(dbg)
  ELSE IF was /\ ~is THEN UnmountController
  ELSE IF was /\ is /\ depsChanged THEN RerunEffect(dbg)
  ELSE UNCHANGED <<ctlVars, aiStatus, lastEmit, runLabel, runLen>>

\* ---- classification samples

GestureNames == {"Open_Palm", "Closed_Fist", "Victory"}
Scores == {50, 51}
LandmarkXs == {<<>>, <<100>>, <<450>>}

\* videoWidth is still 0: the frame is skipped
NotReady ==
  [ready |-> FALSE, hand |-> FALSE, name |-> Null, score |-> 0, lm |-> <<>>]

\* results.gestures.length = 0
NoHand ==
  [ready |-> TRUE, hand |-> FALSE, name |-> Null, score |-> 0, lm |-> <<>>]

\* results.gestures[0][0] with results.landmarks[0][0].x when there are landmarks
HandSamples ==
  {[ready |-> TRUE, hand |-> TRUE, name |-> n, score |-> sc, lm |-> x] :
     n \in GestureNames, sc \in Scores, x \in LandmarkXs}

Samples == HandSamples \cup {NoHand}

\* `score > 0.5`
Qualifies(s) ==
  s.hand /\ s.score > ScoreThreshold

\* if (name === lastGesture.current) gestureCount.current++ else gestureCount.current = 1
NextCount(last, count, name) ==
  IF name = last THEN count + 1 ELSE 1

\* confirmation one frame early (mutant)
ConfirmedEarly(count) ==
  count >= DebounceFrames

\* `gestureCount.current > 5`
Confirmed(count) ==
  count > DebounceFrames

\* the two `if (name === ...) targetState = ...`
TargetState(name) ==
  IF name = "Closed_Fist" THEN "FORMED"
  ELSE IF name = "Open_Palm" THEN "CHAOS"
  ELSE Null

\* the emission test without the comparison to the latch (mutant)
ShouldEmitAlways(target, latch) ==
  target # Null

\* `targetState && targetState !== currentState.current`
ShouldEmit(target, latch) ==
  target # Null /\ target # latch

\* speed = (0.5 - x) * 0.15; onMove(Math.abs(speed) > 0.01 ? speed : 0)
MoveSpeed(x) ==
  LET speed == (500 - x) * 15
  IN IF MathAbs(speed) > 1000 THEN speed ELSE 0

\* the low-score branch keeping the last gesture (mutant)
ResetKeepingLast(last) ==
  [last |-> last, count |-> 0]

\* gestureCount.current = 0; lastGesture.current = null
Reset(last) ==
  [last |-> Null, count |-> 0]

\* the unbroken run of qualifying samples with one label, after sample s
\* (its length saturates at MaxCount)
RunAfter(s) ==
  IF ~Qualifies(s) THEN [label |-> Null, len |-> 0]
  ELSE IF s.name = runLabel THEN [label |-> s.name, len |-> MathMin(runLen + 1, MaxCount)]
  ELSE [label |-> s.name, len |-> 1]

\* the part of predictWebcam that handles the results of one video frame, run
\* by effect instance e on sample s; st is aiStatus when it is called
ProcessSample(e, s, st) ==
  /\ runLabel' = RunAfter(s).label
  /\ runLen' = RunAfter(s).len
  /\ IF s.hand THEN
       /\ IF s.score > ScoreThreshold THEN
            LET count == NextCount(lastGesture, gestureCount, s.name)
                target == TargetState(s.name)
                emit == Confirmed(count) /\ ShouldEmit(target, currentState)
            IN /\ count <= MaxCount
               /\ lastGesture' = s.name
               /\ gestureCount' = count
               /\ currentState' = IF emit THEN target ELSE currentState
               /\ sceneState' = IF emit THEN target ELSE sceneState
               /\ lastEmit' = IF emit THEN target ELSE Null
               /\ aiStatus' = IF emit /\ effects[e].dbg
                              THEN <<"DETECTED: ", s.name, " -> ", target>>
                              ELSE st
          ELSE
            /\ lastGesture' = Reset(lastGesture).last
            /\ gestureCount' = Reset(lastGesture).count
            /\ lastEmit' = Null
            /\ aiStatus' = st
            /\ UNCHANGED <<currentState, sceneState>>
       /\ rotationSpeed' = IF Len(s.lm) > 0 THEN MoveSpeed(s.lm[1]) ELSE rotationSpeed
     ELSE
       /\ lastGesture' = Reset(lastGesture).last
       /\ gestureCount' = Reset(lastGesture).count
       /\ lastEmit' = Null
       /\ rotationSpeed' = 0
       /\ aiStatus' = IF effects[e].dbg THEN StatusNoHand ELSE st
       /\ UNCHANGED <<currentState, sceneState>>

\* a frame that predictWebcam skips: nothing it handles changes
SkipSample(st) ==
  /\ aiStatus' = st
  /\ UNCHANGED <<refVars, sceneState, rotationSpeed, lastEmit, runLabel, runLen>>

\* what no step of GestureController touches
ControllerFrame ==
  UNCHANGED <<birthdayMode, debugMode, photoCount, galleryMode, currentPhotoIndex,
              curEffect, checkVars, particleVars, layoutOut,
              lastRequest, lastAlert, framed>>

\* a step of setup() that ends it, with no loop started, with the given outcome
\* and status
SetupEnds(e, outcome, status) ==
  /\ effects' = [effects EXCEPT ![e] = FreeEffect]
  /\ lastOutcome' = outcome
  /\ SkipSample(status)
  /\ UNCHANGED streamActive
  /\ ControllerFrame

\* the rejection leaving setup() uncaught (mutant)
SetupCatchRethrows(e, message) ==
  SetupEnds(e, "thrown", aiStatus)

\* catch (err) { onStatus(`ERROR: ...`) }
SetupCatch(e, message) ==
  SetupEnds(e, "error", CatchStatus(message))

\* await FilesetResolver.forVisionTasks(...) resolves
SetupFetchDone(e) ==
  /\ effects[e].pc = "fetch"
  /\ effects' = [effects EXCEPT ![e].pc = "model"]
  /\ SkipSample(aiStatus)
  /\ UNCHANGED <<lastOutcome, streamActive>>
  /\ ControllerFrame

\* await FilesetResolver.forVisionTasks(...) rejects
SetupFetchFails(e, message) ==
  /\ effects[e].pc = "fetch"
  /\ SetupCatch(e, message)

\* await GestureRecognizer.createFromOptions(...) resolves;
\* onStatus("REQUESTING CAMERA..."); then getUserMedia is called if it exists
SetupModelDone(e, hasMediaDevices) ==
  /\ effects[e].pc = "model"
  /\ IF hasMediaDevices
     THEN /\ effects' = [effects EXCEPT ![e].pc = "camera", ![e].rec = TRUE]
          /\ SkipSample(StatusRequesting)
          /\ UNCHANGED <<lastOutcome, streamActive>>
          /\ ControllerFrame
     ELSE SetupEnds(e, "error", StatusCameraDenied)

\* await GestureRecognizer.createFromOptions(...) rejects
SetupModelFails(e, message) ==
  /\ effects[e].pc = "model"
  /\ SetupCatch(e, message)

\* await getUserMedia resolves with a stream: if (videoRef.current) { ...;
\* onStatus("AI READY: SHOW HAND"); predictWebcam() }; the first predictWebcam
\* sees sample s
SetupCameraDone(e, s) ==
  /\ effects[e].pc = "camera"
  /\ streamActive' = TRUE
  /\ IF effects[e].live
     THEN /\ effects' = [effects EXCEPT ![e].pc = "done", ![e].raf = TRUE]
          /\ lastOutcome' = "ready"
          /\ IF s.ready THEN ProcessSample(e, s, StatusReady) ELSE SkipSample(StatusReady)
     ELSE /\ s = NotReady
          /\ effects' = [effects EXCEPT ![e] = FreeEffect]
          /\ lastOutcome' = "novideo"
          /\ SkipSample(aiStatus)
  /\ ControllerFrame

\* await getUserMedia rejects
SetupCameraFails(e, message) ==
  /\ effects[e].pc = "camera"
  /\ SetupCatch(e, message)

\* the animation-frame callback predictWebcam of effect instance e, on sample s:
\* if (gestureRecognizer && videoRef.current && canvasRef.current) { if
\* (videoWidth > 0) {...}; requestRef = requestAnimationFrame(predictWebcam) }
PredictWebcam(e, s) ==
  /\ effects[e].raf
  /\ IF effects[e].rec /\ effects[e].live
     THEN /\ IF s.ready THEN ProcessSample(e, s, aiStatus) ELSE SkipSample(aiStatus)
          /\ UNCHANGED effects
     ELSE /\ s = NotReady
          /\ effects' = [effects EXCEPT ![e] = FreeEffect]
          /\ SkipSample(aiStatus)
  /\ UNCHANGED <<lastOutcome, streamActive>>
  /\ ControllerFrame

\* ------------------------------------------------------ PhotoKittyApp

\* totalGalleryPhotos = TOTAL_NUMBERED_PHOTOS
totalGalleryPhotos == TOTAL_NUMBERED_PHOTOS

\* the gallery button shown whenever the scene is FORMED (mutant)
GalleryButtonRenderedInBirthday(scene, birthday, gallery) ==
  scene = "FORMED" \/ gallery

\* {((sceneState === 'FORMED' && !birthdayMode) || galleryMode) && <button .../>}
GalleryButtonRendered(scene, birthday, gallery) ==
  (scene = "FORMED" /\ ~birthday) \/ gallery

\* handleGalleryToggle: the new galleryMode and currentPhotoIndex
handleGalleryToggle(scene, gallery, index) ==
  IF ~gallery
  THEN IF scene = "FORMED"
       THEN [galleryMode |-> TRUE, currentPhotoIndex |-> 0]
       ELSE [galleryMode |-> gallery, currentPhotoIndex |-> index]
  ELSE [galleryMode |-> FALSE, currentPhotoIndex |-> index]

\* the previous index without the added totalGalleryPhotos (mutant)
handlePrevPhotoNoWrap(prev) ==
  JsMod(prev - 1, totalGalleryPhotos)

\* setCurrentPhotoIndex((prev) => (prev - 1 + totalGalleryPhotos) % totalGalleryPhotos)
handlePrevPhoto(prev) ==
  JsMod(prev - 1 + totalGalleryPhotos, totalGalleryPhotos)

\* setCurrentPhotoIndex((prev) => (prev + 1) % totalGalleryPhotos)
handleNextPhoto(prev) ==
  JsMod(prev + 1, totalGalleryPhotos)

\* the upload adding every selected file (mutant)
handlePhotoUploadUnbounded(count, files) ==
  IF files = 0 THEN [photoCount |-> count, alert |-> "NONE"]
  ELSE [photoCount |-> count + files, alert |-> "PREPARE"]

\* handlePhotoUpload for a selection of `files` files: the new photoCount and
\* the alert raised ("LIMIT": the upper limit is reached; "PREPARE": the files
\* to name and copy)
handlePhotoUpload(count, files) ==
  IF files = 0 THEN [photoCount |-> count, alert |-> "NONE"]
  ELSE LET remainingSlots == TOTAL_NUMBERED_PHOTOS - count
       IN IF remainingSlots <= 0
          THEN [photoCount |-> count, alert |-> "LIMIT"]
          ELSE [photoCount |-> MathMin(count + MathMin(files, remainingSlots),
                                       TOTAL_NUMBERED_PHOTOS),
                alert |-> "PREPARE"]

\* CompositionElements is mounted anew (or unmounted) by a render
ParticlesOnRender(wasShown, isShown) ==
  IF isShown /\ ~wasShown /\ textures = "loaded"
  THEN /\ \E seed \in Seeds :
            /\ data' = MakeData(seed)
            /\ uniquePhotoIndices' = UniquePhotoIndices(data')
       /\ visible' = [i \in 0..(ParticleCount - 1) |-> TRUE]
       /\ frameTarget' = NoData
       /\ lerpSpeed' = 0
       /\ UNCHANGED textures
  ELSE IF ~isShown
  THEN /\ data' = NoData
       /\ uniquePhotoIndices' = <<>>
       /\ visible' = NoData
       /\ frameTarget' = NoData
       /\ lerpSpeed' = 0
       /\ UNCHANGED textures
  ELSE UNCHANGED particleVars

\* the scene toggle button, rendered when !galleryMode
ClickSceneToggle ==
  /\ ~galleryMode
  /\ sceneState' = IF sceneState = "CHAOS" THEN "FORMED" ELSE "CHAOS"
  /\ UNCHANGED <<rotationSpeed, birthdayMode, aiStatus, debugMode, photoCount,
                 galleryMode, currentPhotoIndex, ctlVars, checkVars, particleVars,
                 layoutOut, streamActive, obsVars>>

\* a request to toggle the gallery: a click on the gallery button if it is
\* rendered; without the button the request changes nothing
RequestGalleryToggle ==
  LET shown == GalleryButtonRendered(sceneState, birthdayMode, galleryMode)
      new == IF shown
             THEN handleGalleryToggle(sceneState, galleryMode, currentPhotoIndex)
             ELSE [galleryMode |-> galleryMode, currentPhotoIndex |-> currentPhotoIndex]
  IN /\ galleryMode' = new.galleryMode
     /\ currentPhotoIndex' = new.currentPhotoIndex
     /\ lastRequest' = IF new.galleryMode = galleryMode THEN "REJECTED"
                       ELSE IF new.galleryMode THEN "ENTERED" ELSE "EXITED"
     /\ framed' = IF new.galleryMode = galleryMode THEN framed ELSE FALSE
     /\ ControllerUpdate(Mounted(birthdayMode, galleryMode),
                         Mounted(birthdayMode, new.galleryMode), FALSE, debugMode)
     /\ UNCHANGED <<sceneState, rotationSpeed, birthdayMode, debugMode, photoCount,
                    checkVars, particleVars, layoutOut, streamActive, lastAlert, lastOutcome>>

\* the birthday button: setBirthdayMode(!birthdayMode)
ClickBirthdayToggle ==
  /\ birthdayMode' = ~birthdayMode
  /\ ControllerUpdate(Mounted(birthdayMode, galleryMode),
                      Mounted(~birthdayMode, galleryMode), FALSE, debugMode)
  /\ ParticlesOnRender(~birthdayMode, birthdayMode)
  /\ framed' = FALSE
  /\ UNCHANGED <<sceneState, rotationSpeed, debugMode, photoCount, galleryMode,
                 currentPhotoIndex, checkVars, layoutOut, streamActive,
                 lastRequest, lastAlert, lastOutcome>>

\* the debug button, rendered when !birthdayMode: setDebugMode(!debugMode)
ClickDebugToggle ==
  /\ ~birthdayMode
  /\ debugMode' = ~debugMode
  /\ ControllerUpdate(Mounted(birthdayMode, galleryMode),
                      Mounted(birthdayMode, galleryMode), TRUE, ~debugMode)
  /\ UNCHANGED <<sceneState, rotationSpeed, birthdayMode, photoCount, galleryMode,
                 currentPhotoIndex, checkVars, particleVars, layoutOut, streamActive,
                 lastRequest, lastAlert, framed, lastOutcome>>

\* what the gallery arrows leave alone
NavFrame ==
  UNCHANGED <<sceneState, rotationSpeed, birthdayMode, aiStatus, debugMode,
              photoCount, galleryMode, ctlVars, checkVars, particleVars, layoutOut, streamActive,
              lastEmit, runLabel, runLen, lastRequest, lastAlert, lastOutcome>>

\* the left arrow, rendered when galleryMode
ClickPrevPhoto ==
  /\ galleryMode
  /\ currentPhotoIndex' = handlePrevPhoto(currentPhotoIndex)
  /\ framed' = FALSE
  /\ NavFrame

\* the right arrow, rendered when galleryMode
ClickNextPhoto ==
  /\ galleryMode
  /\ currentPhotoIndex' = handleNextPhoto(currentPhotoIndex)
  /\ framed' = FALSE
  /\ NavFrame

\* the file input's onChange with a selection of `files` files
UploadPhotos(files) ==
  /\ photoCount' = handlePhotoUpload(photoCount, files).photoCount
  /\ lastAlert' = handlePhotoUpload(photoCount, files).alert
  /\ UNCHANGED <<sceneState, rotationSpeed, birthdayMode, aiStatus, debugMode,
                 galleryMode, currentPhotoIndex, ctlVars, checkVars, particleVars,
                 layoutOut, streamActive, lastEmit, runLabel, runLen, lastRequest, framed,
                 lastOutcome>>

\* checkAllPhotos: one `await checkPhoto(i)` resolves; after the last one
\* setPhotoCount(loadedCount)
CheckPhoto(exists) ==
  LET loaded == IF exists THEN loadedCount + 1 ELSE loadedCount
  IN /\ checkIndex <= TOTAL_NUMBERED_PHOTOS
     /\ loadedCount' = loaded
     /\ checkIndex' = checkIndex + 1
     /\ photoCount' = IF checkIndex = TOTAL_NUMBERED_PHOTOS THEN loaded ELSE photoCount
     /\ UNCHANGED <<sceneState, rotationSpeed, birthdayMode, aiStatus, debugMode,
                    galleryMode, currentPhotoIndex, ctlVars, particleVars,
                    layoutOut, streamActive, obsVars>>

\* ------------------------------------------------- CompositionElements

\* useTexture resolves: the suspended CompositionElements renders, if mounted
TexturesLoaded ==
  /\ textures = "loading"
  /\ textures' = "loaded"
  /\ IF ~birthdayMode
     THEN /\ \E seed \in Seeds :
               /\ data' = MakeData(seed)
               /\ uniquePhotoIndices' = UniquePhotoIndices(data')
          /\ visible' = [i \in 0..(ParticleCount - 1) |-> TRUE]
     ELSE UNCHANGED <<data, uniquePhotoIndices, visible>>
  /\ UNCHANGED <<frameTarget, lerpSpeed>>
  /\ framed' = FALSE
  /\ UNCHANGED <<appVars, ctlVars, checkVars, layoutOut, streamActive,
                 lastEmit, runLabel, runLen, lastRequest, lastAlert, lastOutcome>>

\* visibility shown to every photo particle in gallery mode (mutant)
VisibleAllPhotos(gallery, d, unique, i) ==
  IF gallery THEN d[i].type = "PHOTO" ELSE TRUE

\* group.visible after the frame: galleryMode ? isUniqueGalleryPhoto : true
VisibleAfterFrame(gallery, d, unique, i) ==
  IF gallery THEN gallery /\ Includes(unique, i) ELSE TRUE

\* every particle lerping at the gallery speed only if it is on the ring (mutant)
LerpSpeedRingOnly(gallery, isFormed) ==
  IF isFormed THEN 15 ELSE 5

\* lerpSpeed = galleryMode ? 2.0 : (isFormed ? 1.5 : 0.5), in tenths
LerpSpeed(gallery, isFormed) ==
  IF gallery THEN 20 ELSE (IF isFormed THEN 15 ELSE 5)

\* the target of particle i: the ring position (its angle) of a unique gallery
\* photo, else objData.targetPos if isFormed, else objData.chaosPos
TargetOf(gallery, isFormed, unique, focusedIndex, i) ==
  LET isUniqueGalleryPhoto == gallery /\ Includes(unique, i)
  IN IF isUniqueGalleryPhoto
     THEN <<"ring", GalleryAngle(IndexOf(unique, i), Len(unique), focusedIndex)>>
     ELSE IF isFormed THEN <<"targetPos">>
     ELSE <<"chaosPos">>

\* useFrame of CompositionElements, over groupRef.current.children
Frame ==
  /\ data # NoData
  /\ lerpSpeed' = LerpSpeed(galleryMode, sceneState = "FORMED")
  /\ framed' = TRUE
  /\ UNCHANGED <<appVars, ctlVars, checkVars, textures, data, uniquePhotoIndices,
                 layoutOut, streamActive, lastEmit, runLabel, runLen, lastRequest, lastAlert,
                 lastOutcome>>
  /\ visible' = [i \in 0..(ParticleCount - 1) |->
                   VisibleAfterFrame(galleryMode, data, uniquePhotoIndices, i)]
  /\ frameTarget' = [i \in 0..(ParticleCount - 1) |->
                       TargetOf(galleryMode, sceneState = "FORMED", uniquePhotoIndices,
                                currentPhotoIndex, i)]

\* the focused photo of the ring: the angle given to the unique photo at
\* position currentPhotoIndex, <<>> if there is no such position
FocusAngle ==
  IF currentPhotoIndex < Len(uniquePhotoIndices)
  THEN GalleryAngle(IndexOf(uniquePhotoIndices, uniquePhotoIndices[currentPhotoIndex + 1]),
                    Len(uniquePhotoIndices), currentPhotoIndex)
  ELSE <<>>

\* ------------------------------------------------- layout on its own

\* data's map calls getHelloKittyData(i) for i = 0, 1, 2, ...: the next call
GenerateNext(rnd) ==
  /\ layoutOut.index < MaxLayoutIndex
  /\ layoutOut' = [index |-> layoutOut.index + 1,
                   out |-> getHelloKittyData(layoutOut.index + 1, rnd)]
  /\ UNCHANGED <<appVars, ctlVars, streamActive, checkVars, particleVars, obsVars>>

\* ---------------------------------------------------------------- Init

\* the state after the first render and its effects: GestureController is
\* mounted and its setup() awaits the runtime, the photo check has started,
\* CompositionElements is suspended on its textures
Init ==
  /\ sceneState = "CHAOS"
  /\ rotationSpeed = 0
  /\ birthdayMode = FALSE
  /\ aiStatus = StatusDownloading
  /\ debugMode = FALSE
  /\ photoCount = 0
  /\ galleryMode = FALSE
  /\ currentPhotoIndex = 0
  /\ lastGesture = Null
  /\ gestureCount = 0
  /\ currentState = Null
  /\ effects = [e \in Slots |-> IF e = 1 THEN NewEffect(FALSE) ELSE FreeEffect]
  /\ curEffect = 1
  /\ streamActive = FALSE
  /\ checkIndex = 1
  /\ loadedCount = 0
  /\ textures = "loading"
  /\ data = NoData
  /\ uniquePhotoIndices = <<>>
  /\ visible = NoData
  /\ frameTarget = NoData
  /\ lerpSpeed = 0
  /\ layoutOut \in {[index |-> 0, out |-> getHelloKittyData(0, rnd)] : rnd \in RndDraws}
  /\ lastEmit = Null
  /\ runLabel = Null
  /\ runLen = 0
  /\ lastRequest = "NONE"
  /\ lastAlert = "NONE"
  /\ framed = FALSE
  /\ lastOutcome = "none"

\* ------------------------------------------------------ specifications

\* the buttons of the app, the gesture runtime being unreachable
Next ==
  \/ ClickSceneToggle
  \/ RequestGalleryToggle
  \/ ClickBirthdayToggle
  \/ ClickDebugToggle
  \/ ClickPrevPhoto
  \/ ClickNextPhoto
  \/ \E e \in Slots, m \in ErrMessages : SetupFetchFails(e, m)

Spec == Init /\ [][Next]_vars

\* GestureController's debounce: the prediction loop on every sample, every
\* setup() succeeding, with the buttons that toggle the scene and remount the
\* controller
NextGesture ==
  \/ ClickSceneToggle
  \/ ClickBirthdayToggle
  \/ \E e \in Slots : SetupFetchDone(e)
  \/ \E e \in Slots : SetupModelDone(e, TRUE)
  \/ \E e \in Slots, s \in Samples \cup {NotReady} : SetupCameraDone(e, s)
  \/ \E e \in Slots, s \in Samples \cup {NotReady} : PredictWebcam(e, s)

SpecGesture == Init /\ [][NextGesture]_vars

\* the samples of the specification of setup(): no hand, a skipped frame, an
\* open palm
SetupSamples ==
  {NotReady, NoHand,
   [ready |-> TRUE, hand |-> TRUE, name |-> "Open_Palm", score |-> 51, lm |-> <<>>]}

\* GestureController's setup(): every way it can end, with the button that
\* re-runs its effect while an earlier setup() or loop is still alive
NextSetup ==
  \/ ClickDebugToggle
  \/ \E e \in Slots : SetupFetchDone(e)
  \/ \E e \in Slots, m \in ErrMessages : SetupFetchFails(e, m)
  \/ \E e \in Slots, h \in BOOLEAN : SetupModelDone(e, h)
  \/ \E e \in Slots, m \in ErrMessages : SetupModelFails(e, m)
  \/ \E e \in Slots, s \in SetupSamples : SetupCameraDone(e, s)
  \/ \E e \in Slots, m \in ErrMessages : SetupCameraFails(e, m)
  \/ \E e \in Slots, s \in SetupSamples : PredictWebcam(e, s)

SpecSetup == Init /\ [][NextSetup]_vars

\* CompositionElements: its particles and their visibility in each frame
NextParticles ==
  \/ TexturesLoaded
  \/ Frame
  \/ ClickSceneToggle
  \/ RequestGalleryToggle
  \/ ClickBirthdayToggle
  \/ \E e \in Slots : SetupFetchFails(e, "")

SpecParticles == Init /\ [][NextParticles]_vars

\* the gallery ring: the focused photo under navigation
NextGallery ==
  \/ TexturesLoaded
  \/ ClickSceneToggle
  \/ RequestGalleryToggle
  \/ ClickPrevPhoto
  \/ ClickNextPhoto
  \/ \E e \in Slots : SetupFetchFails(e, "")

SpecGallery == Init /\ [][NextGallery]_vars

\* useFrame: the target and the speed of every particle, the arrows moving
\* the focus within 0..MaxNav; the gesture runtime never answers, so every
\* setup() started by leaving the gallery stays alive
NextFrame ==
  \/ TexturesLoaded
  \/ Frame
  \/ ClickSceneToggle
  \/ RequestGalleryToggle
  \/ (currentPhotoIndex \in 1..MaxNav /\ ClickPrevPhoto)
  \/ (currentPhotoIndex < MaxNav /\ ClickNextPhoto)

SpecFrame == Init /\ [][NextFrame]_vars

\* uploads and the photo check started on mount
NextUpload ==
  \/ \E files \in 0..MaxFiles : UploadPhotos(files)
  \/ \E exists \in BOOLEAN : CheckPhoto(exists)

SpecUpload == Init /\ [][NextUpload]_vars

\* getHelloKittyData over the first indices
NextLayout ==
  \E rnd \in RndDraws : GenerateNext(rnd)

SpecLayout == Init /\ [][NextLayout]_vars

\* ------------------------------------------------------------ claims

\* a step in which effect instance e handles sample s
SampleStep(e, s) ==
  PredictWebcam(e, s) \/ SetupCameraDone(e, s)

\* C1: a gallery-toggle request made while galleryMode is false enters gallery
\* mode only when sceneState = FORMED and birthdayMode = false; in every other
\* case it is rejected and sceneState, birthdayMode, galleryMode and
\* currentPhotoIndex stay as they were.  No other step enters gallery mode.
C1_GalleryEntryGuarded ==
  [][ /\ (~galleryMode /\ galleryMode') =>
           (sceneState = "FORMED" /\ ~birthdayMode /\ RequestGalleryToggle)
      /\ (RequestGalleryToggle /\ ~galleryMode) =>
           IF sceneState = "FORMED" /\ ~birthdayMode
           THEN galleryMode' /\ lastRequest' = "ENTERED"
           ELSE /\ lastRequest' = "REJECTED"
                /\ UNCHANGED <<sceneState, birthdayMode, galleryMode, currentPhotoIndex>>
    ]_vars

\* a request made in birthday mode with the scene FORMED was rejected
C1_Witness ==
  /\ lastRequest = "REJECTED"
  /\ sceneState = "FORMED"
  /\ birthdayMode
  /\ ~galleryMode

\* C4: currentPhotoIndex is always in [0, totalGalleryPhotos); next maps p to
\* (p + 1) mod totalGalleryPhotos and previous maps p to (p - 1) mod
\* totalGalleryPhotos, wrapping at both ends.
C4_IndexWraps ==
  /\ [](currentPhotoIndex \in 0..51)
  /\ [][ /\ ClickNextPhoto =>
              currentPhotoIndex' = IF currentPhotoIndex = 51 THEN 0
                                   ELSE currentPhotoIndex + 1
         /\ ClickPrevPhoto =>
              currentPhotoIndex' = IF currentPhotoIndex = 0 THEN 51
                                   ELSE currentPhotoIndex - 1
       ]_vars

\* the gallery shows the last photo, reached by wrapping back from 0 or by
\* stepping forward 51 times
C4_Witness ==
  /\ galleryMode
  /\ currentPhotoIndex = 51

C3_EmitOnLatchChange ==
  [][ \A e \in Slots, s \in HandSamples :
        (s.score > 50 /\ gestureCount' >= 6 /\ SampleStep(e, s)) =>
          LET target == IF s.name = "Open_Palm" THEN "CHAOS"
                        ELSE IF s.name = "Closed_Fist" THEN "FORMED"
                        ELSE Null
          IN IF target # Null /\ target # currentState
             THEN /\ lastEmit' = target
                  /\ currentState' = target
                  /\ sceneState' = target
             ELSE /\ lastEmit' = Null
                  /\ currentState' = currentState
                  /\ sceneState' = sceneState
    ]_vars

\* a held Open_Palm: confirmed again, the latch already CHAOS, nothing emitted
C3_Witness ==
  /\ gestureCount > 6
  /\ lastGesture = "Open_Palm"
  /\ currentState = "CHAOS"
  /\ lastEmit = Null

\* C5: in gallery mode with N unique photos (N > 0), the focus
\* currentPhotoIndex is a valid position in [0, N) and the unique photo at that
\* position is placed at ring angle 0, the front of the ring.
C5_FocusAtFront ==
  (galleryMode /\ data # NoData /\ Len(uniquePhotoIndices) > 0) =>
    /\ currentPhotoIndex \in 0..(Len(uniquePhotoIndices) - 1)
    /\ FocusAngle = <<0, Len(uniquePhotoIndices)>>

\* C6: after a frame in gallery mode exactly the particles in
\* uniquePhotoIndices are visible, and that list holds exactly one PHOTO
\* particle for each texture index occurring among the PHOTO particles; after
\* a frame outside gallery mode every particle is visible, so those hidden by
\* the gallery are shown again once it is left.
C6_VisibilityPerFrame ==
  (framed /\ data # NoData) =>
    LET N == ParticleCount
        photos == {i \in 0..(N - 1) : data[i].type = "PHOTO"}
        listed == {uniquePhotoIndices[k] : k \in 1..Len(uniquePhotoIndices)}
    IN /\ listed \subseteq photos
       /\ \A i \in photos :
            Cardinality({j \in listed : data[j].textureIndex = data[i].textureIndex}) = 1
       /\ Cardinality(listed) = Len(uniquePhotoIndices)
       /\ IF galleryMode
          THEN \A i \in 0..(N - 1) : visible[i] <=> (i \in listed)
          ELSE \A i \in 0..(N - 1) : visible[i]

\* a frame in gallery mode showed a unique photo and hid a later PHOTO particle
\* carrying the same texture
C6_Witness ==
  /\ framed
  /\ galleryMode
  /\ data # NoData
  /\ \E i \in 0..(ParticleCount - 1) :
       /\ data[i].type = "PHOTO"
       /\ ~visible[i]
       /\ \E k \in 1..Len(uniquePhotoIndices) :
            /\ data[uniquePhotoIndices[k]].textureIndex = data[i].textureIndex
            /\ visible[uniquePhotoIndices[k]]

\* C7: photoCount never exceeds TOTAL_NUMBERED_PHOTOS (52); an upload of f
\* files when r = 52 - photoCount > 0 slots remain raises photoCount by
\* min(f, r); an upload made when no slots remain only raises an alert and
\* leaves photoCount unchanged.
C7_UploadBounded ==
  /\ [](photoCount \in 0..52)
  /\ [][ \A f \in 1..MaxFiles :
           UploadPhotos(f) =>
             LET r == 52 - photoCount
             IN IF r > 0
                THEN /\ photoCount' = photoCount + (IF f < r THEN f ELSE r)
                     /\ lastAlert' # "LIMIT"
                ELSE /\ photoCount' = photoCount
                     /\ lastAlert' = "LIMIT"
       ]_vars

\* an upload made with every slot taken raised the limit alert
C7_Witness ==
  /\ photoCount = 52
  /\ lastAlert = "LIMIT"

\* C8: when the recognizer setup fails (model or runtime load fails,
\* mediaDevices missing, camera refused) the failure is caught and reported
\* as a status string beginning with "ERROR"; nothing is thrown, this setup
\* starts no prediction loop, no gesture event is emitted and sceneState does
\* not change.
C8_SetupFailureContained ==
  [][ \A e \in Slots :
        (\/ \E m \in ErrMessages : SetupFetchFails(e, m)
         \/ \E m \in ErrMessages : SetupModelFails(e, m)
         \/ \E m \in ErrMessages : SetupCameraFails(e, m)
         \/ SetupModelDone(e, FALSE)) =>
          /\ aiStatus'[1] = "ERROR: "
          /\ lastOutcome' = "error"
          /\ ~effects'[e].raf
          /\ \A f \in Slots \ {e} : effects'[f] = effects[f]
          /\ lastEmit' = lastEmit
          /\ sceneState' = sceneState
    ]_vars

\* a setup failed with an empty message and was reported as MODEL FAILED
C8_Witness ==
  /\ lastOutcome = "error"
  /\ aiStatus = <<"ERROR: ", "MODEL FAILED">>

\* C9: getHelloKittyData(index) gives the eyes for 0-1, the nose for 2, the
\* whiskers for 3-8 (3-5 on the left, 6-8 on the right, rotated in opposite
\* directions), the bow for 9-35, and for every index above 35 a body element
\* of type PHOTO, BALLOON, HEART or GIFT, never a face or bow type.
C9_LayoutRanges ==
  layoutOut.index >= 0 =>
    LET i == layoutOut.index
        o == layoutOut.out
    IN /\ (i \in 0..1) => o.type = "EYE"
       /\ (i = 2) => o.type = "NOSE"
       /\ (i \in 3..5) => (o.type = "WHISKER" /\ o.pos[1] < 0 /\ o.rotZ > 0)
       /\ (i \in 6..8) => (o.type = "WHISKER" /\ o.pos[1] > 0 /\ o.rotZ < 0)
       /\ (i \in 9..35) => o.type = "BOW"
       /\ (i > 35) => o.type \in {"PHOTO", "BALLOON", "HEART", "GIFT"}

\* an element above index 35 came out as a body element
C9_Witness ==
  /\ layoutOut.index > 35
  /\ layoutOut.out.type = "GIFT"

\* C10: a sample that does not qualify (no hand, or score at most 0.5) resets
\* the debounce counter and the remembered label and fires nothing, so the
\* counter never runs ahead of the unbroken run of qualifying samples; a
\* sample with no hand also reports rotation speed 0.
C10_ResetOnBadSample ==
  /\ [](gestureCount <= runLen)
  /\ [][ \A e \in Slots, s \in Samples :
           (~(s.hand /\ s.score > 50) /\ SampleStep(e, s)) =>
             /\ gestureCount' = 0
             /\ lastGesture' = Null
             /\ lastEmit' = Null
             /\ currentState' = currentState
             /\ sceneState' = sceneState
             /\ (~s.hand => rotationSpeed' = 0)
       ]_vars

\* after a gesture was confirmed in this mount (the latch is set), a sample
\* that did not qualify put the counter back at 0 with no label and fired
\* nothing
C10_Witness ==
  /\ currentState # Null
  /\ gestureCount = 0
  /\ lastGesture = Null
  /\ runLen = 0
  /\ lastEmit = Null
  /\ rotationSpeed = 0

\* C11: in each frame the target of a particle is its gallery ring position
\* if galleryMode is active and it is a unique gallery photo, else targetPos if
\* sceneState = FORMED, else chaosPos; the speed factor is 2.0 whenever
\* galleryMode is active, for every particle, else 1.5 when FORMED, else 0.5.
C11_TargetAndSpeed ==
  [][ Frame =>
        LET N == Len(uniquePhotoIndices)
        IN /\ \A i \in 0..(ParticleCount - 1) :
                IF galleryMode /\ (\E k \in 1..N : uniquePhotoIndices[k] = i)
                THEN \E k \in 1..N :
                       /\ uniquePhotoIndices[k] = i
                       /\ frameTarget'[i] = <<"ring", <<(k - 1) - currentPhotoIndex, N>>>>
                ELSE IF sceneState = "FORMED"
                THEN frameTarget'[i] = <<"targetPos">>
                ELSE frameTarget'[i] = <<"chaosPos">>
           /\ lerpSpeed' = IF galleryMode THEN 20
                           ELSE IF sceneState = "FORMED" THEN 15 ELSE 5
    ]_vars

\* a frame in gallery mode with the focus moved off 0: a unique photo went to
\* the ring, a particle outside the ring to targetPos, at speed 2.0
C11_Witness ==
  /\ framed
  /\ galleryMode
  /\ currentPhotoIndex = 1
  /\ lerpSpeed = 20
  /\ frameTarget # NoData
  /\ frameTarget[0] = <<"targetPos">>
  /\ \E i \in 0..(ParticleCount - 1) :
       frameTarget[i] = <<"ring", <<0, Len(uniquePhotoIndices)>>>>

\* C12: when GestureController is torn down (unmounted, or its effect re-run)
\* the pending animation-frame request is cancelled and the camera stream is
\* stopped: no effect instance other than the current one has a prediction
\* step scheduled, and a camera stream is active only if the current effect
\* instance has acquired it.
C12_TeardownReleases ==
  /\ \A e \in Slots : effects[e].raf => e = curEffect
  /\ streamActive => (curEffect # 0 /\ effects[curEffect].pc = "done")

\* C13: the particle set is created once per session and recreated only when
\* the texture set changes: a step that leaves the texture set as it is
\* (a birthdayMode, galleryMode or sceneState change among them) neither
\* creates a particle set nor alters the one there is.
C13_ParticleSetCreatedOnce ==
  [][ textures' = textures => (data' = data \/ data' = NoData) ]_vars

\* C14: in every state reachable through the buttons and gesture events,
\* galleryMode = true implies sceneState = FORMED and birthdayMode = false.
C14_GalleryImpliesFormed ==
  galleryMode => (sceneState = "FORMED" /\ ~birthdayMode)

\* C15: at most one gesture prediction loop is active at any time: whatever
\* the interleaving of setup() completing with re-runs of the effect and
\* remounts, at most one effect instance has a predictWebcam call scheduled.
C15_SingleLoop ==
  Cardinality({e \in Slots : effects[e].raf}) <= 1

\* C16: whenever a gesture is confirmed while GestureController is mounted
\* (the counter exceeds 5 for Open_Palm or Closed_Fist), sceneState equals the
\* gesture's target state right after that sample, whatever clicks on the
\* scene toggle and remounts came before.
C16_ConfirmedGestureApplies ==
  [][ \A e \in Slots, s \in HandSamples :
        (/\ s.score > 50
         /\ s.name \in {"Open_Palm", "Closed_Fist"}
         /\ gestureCount' > 5
         /\ SampleStep(e, s)) =>
          sceneState' = (IF s.name = "Open_Palm" THEN "CHAOS" ELSE "FORMED")
    ]_vars

\* C17: an accepted upload's increase of photoCount is never lost: in no
\* step, of handlePhotoUpload or of the initial photo check started on mount,
\* does photoCount decrease.
C17_UploadNeverLost ==
  [][ photoCount' >= photoCount ]_vars

==========================================================================
